---- MODULE Spec2Model ----
(***************************************************************************)
(* A model of github_activity/cli.py: the GitHubActivity class.            *)
(*                                                                         *)
(*   - fetch_activity, filter_events, show_filtered_events, show_all and   *)
(*     the six show_<type> commands are operators, computed as the code    *)
(*     computes them;                                                      *)
(*   - Spec is the interactive loop of run(): one action per branch of     *)
(*     the loop body, each drawing the line typed and the outcome of the   *)
(*     HTTP request from bounded sets;                                     *)
(*   - SpecUnit calls the methods directly on bounded inputs.              *)
(*                                                                         *)
(* A printed line is a record naming the print statement that produced it  *)
(* (view, fmt), the username interpolated into it (who) and the event it   *)
(* renders (ev).  An event record carries its type tag and an id standing  *)
(* for the rest of its fields (repo, payload, created_at), which every     *)
(* event of the modelled feeds has, as the upstream API documents.         *)
(***************************************************************************)
EXTENDS Integers, Sequences, FiniteSets, TLC

VARIABLES
    run_state,    \* "running" | "terminated" (run() returned) | "raised" (an exception left run())
    read,         \* how the last input() ended: "none" | "line" | "interrupt"
    user_input,   \* the stripped line of the last iteration
    activities,   \* the local variable `activities` of run()
    fetched,      \* the fetch_activity calls of the last iteration: <<[username, ret]>>
    invoked,      \* the command handlers called in the last iteration
    out,          \* the lines printed by the last iteration (or the last direct call)
    call,         \* SpecUnit: the last direct method call and its arguments
    ret           \* SpecUnit: what that call returned

vars == <<run_state, read, user_input, activities, fetched, invoked, out, call, ret>>

(***************************************************************************)
(* Bounds                                                                  *)
(***************************************************************************)
\* longest event list handed to a method called directly
MaxEvents == 3
\* longest event list a response carries in the interactive loop
MaxFeed == 2

(***************************************************************************)
(* Events                                                                  *)
(***************************************************************************)
KnownTypes ==
    {"PushEvent", "IssuesEvent", "PullRequestEvent",
     "IssueCommentEvent", "WatchEvent", "ForkEvent"}

\* CreateEvent is a tag of the upstream feed that no branch of the code names
EventTypes == KnownTypes \cup {"CreateEvent"}

Event(type, id) == [type |-> type, id |-> id]

\* two events of every type, so that events of one type can be told apart
Events == {Event(t, i) : t \in EventTypes, i \in {1, 2}}

\* the events of the responses in the interactive loop
FeedEvents == {Event("PushEvent", 1), Event("WatchEvent", 1), Event("CreateEvent", 1)}

NoEvent == [type |-> "none", id |-> 0]

SeqsUpTo(S, n) == UNION {[1..k -> S] : k \in 0..n}

EventLists == SeqsUpTo(Events, MaxEvents)

Feeds == SeqsUpTo(FeedEvents, MaxFeed)

Usernames == {"octocat", "Octocat"}

(***************************************************************************)
(* Printed lines                                                           *)
(***************************************************************************)
Line(view, fmt, who, ev, width) ==
    [view |-> view, fmt |-> fmt, who |-> who, ev |-> ev, width |-> width]

Msg(fmt, who) == Line("msg", fmt, who, NoEvent, 0)

Diag(fmt, who) == Line("diag", fmt, who, NoEvent, 0)

\* show_start: five print calls
show_start ==
    << Msg("welcome", ""), Msg("about", ""), Msg("quickstart", ""),
       Msg("usage", ""), Msg("hint", "") >>

\* show_help: one print call
show_help == << Msg("help", "") >>

(***************************************************************************)
(* Results of fetch_activity                                               *)
(***************************************************************************)
List(events) == [kind |-> "list", events |-> events]

None == [kind |-> "None", events |-> << >>]

Raised == [kind |-> "raised", events |-> << >>]

Unbound == [kind |-> "unbound", events |-> << >>]

\* Python truthiness of a fetch result: None and the empty list are falsy
Truthy(r) == r.kind = "list" /\ Len(r.events) > 0

(***************************************************************************)
(* The outcome of requests.get, as fetch_activity sees it                  *)
(***************************************************************************)
Statuses == {200, 403, 404, 500}

\* X-RateLimit-Remaining as headers.get returns it; "absent" stands for None
RemainingValues == {"0", "1", "absent"}

NotJson == [json |-> FALSE, events |-> << >>]

JsonList(events) == [json |-> TRUE, events |-> events]

Response(status, remaining, body) ==
    [transport |-> FALSE, status |-> status, remaining |-> remaining, body |-> body]

\* requests.get raised a RequestException (DNS, connection, timeout)
TransportFailure ==
    [transport |-> TRUE, status |-> 0, remaining |-> "absent", body |-> NotJson]

\* a success response carries an array of events or a body that is not JSON
Bodies == {NotJson} \cup {JsonList(l) : l \in Feeds}

\* an error response carries no event array
HttpOutcomes ==
    {TransportFailure}
    \cup {Response(s, r, NotJson) : s \in Statuses \ {200}, r \in RemainingValues}
    \cup {Response(200, r, b) : r \in RemainingValues, b \in Bodies}

\* in the interactive loop the header varies where the code reads it
LoopOutcomes == {h \in HttpOutcomes : h.status # 403 => h.remaining = "1"}

\* response.raise_for_status() raises HTTPError for a 4xx or 5xx status
raise_for_status(http) == 400 <= http.status /\ http.status < 600

not_found(http) == http.status = 404

rate_limited_any_403(http) == http.status = 403

rate_limited(http) == http.status = 403 /\ http.remaining = "0"

\* the except HTTPError branch: one print, chosen by the if/elif/else
http_error_line(username, http) ==
    IF not_found(http) THEN Diag("not_found", username)
    ELSE IF rate_limited(http) THEN Diag("rate_limit", "")
    ELSE Diag("http_error", "")

\* response.json(), outside the try block: it raises when the body is not JSON
response_json(http) ==
    IF http.body.json THEN List(http.body.events) ELSE Raised

\* fetch_activity(username): what it returns (or that it raised) and what it printed
fetch_activity(username, http) ==
    IF http.transport
    THEN [ret |-> None, out |-> << Diag("network_error", "") >>]
    ELSE IF raise_for_status(http)
         THEN [ret |-> None, out |-> << http_error_line(username, http) >>]
         ELSE [ret |-> response_json(http), out |-> << >>]

(***************************************************************************)
(* Filtering and display                                                   *)
(***************************************************************************)
RECURSIVE Reverse(_)
Reverse(s) == IF s = << >> THEN << >> ELSE Append(Reverse(Tail(s)), Head(s))

filter_events_reversed(acts, etype) ==
    Reverse(SelectSeq(acts, LAMBDA a : a.type = etype))

\* [activity for activity in activities if activity["type"] == etype]
filter_events(acts, etype) == SelectSeq(acts, LAMBDA a : a.type = etype)

\* prefix lengths of the comment body: [:40] in show_all, [:50] in show_issuecomment
AllCommentWidth == 40

FilteredCommentWidth == 50

\* the lambda each show_<type> passes as formatter
formatter(etype, e) ==
    Line("filtered", etype, "", e,
         IF etype = "IssueCommentEvent" THEN FilteredCommentWidth ELSE 0)

\* no_msg.format(username=username)
no_msg(etype, username) == Line("no_msg", etype, username, NoEvent, 0)

show_filtered_events_silent(username, acts, etype) ==
    LET events == filter_events(acts, etype)
    IN  [i \in 1..Len(events) |-> formatter(etype, events[i])]

show_filtered_events(username, acts, etype) ==
    LET events == filter_events(acts, etype)
    IN  IF events = << >>
        THEN << no_msg(etype, username) >>
        ELSE [i \in 1..Len(events) |-> formatter(etype, events[i])]

\* one pass of the loop body of show_all: the if/elif chain, with no else
all_line(activity) ==
    IF activity.type \in KnownTypes
    THEN << Line("all", activity.type, "", activity,
                 IF activity.type = "IssueCommentEvent" THEN AllCommentWidth ELSE 0) >>
    ELSE << >>

RECURSIVE show_all_until_unknown(_, _)
show_all_until_unknown(username, acts) ==
    IF acts = << >> \/ Head(acts).type \notin KnownTypes THEN << >>
    ELSE all_line(Head(acts)) \o show_all_until_unknown(username, Tail(acts))

RECURSIVE show_all(_, _)
show_all(username, acts) ==
    IF acts = << >> THEN << >>
    ELSE all_line(Head(acts)) \o show_all(username, Tail(acts))

\* self.user_commands: the event type each filtered command shows
CommandType ==
    [push |-> "PushEvent", issues |-> "IssuesEvent",
     pullrequest |-> "PullRequestEvent", issuecomment |-> "IssueCommentEvent",
     watch |-> "WatchEvent", fork |-> "ForkEvent"]

FilteredCommands == DOMAIN CommandType

user_commands == {"all"} \cup FilteredCommands

global_commands == {"help", "start"}

\* self.user_commands[cmd](username, activities)
run_user_command(cmd, username, acts) ==
    IF cmd = "all" THEN show_all(username, acts)
    ELSE show_filtered_events(username, acts, CommandType[cmd])

\* self.global_commands[cmd]()
run_global_command(cmd) == IF cmd = "help" THEN show_help ELSE show_start

(***************************************************************************)
(* Input lines: a sequence of tokens and whitespace items                  *)
(***************************************************************************)
Space == " "

GlobalTokens == {"help", "HELP", "start"}

ExitTokens == {"exit", "Exit", "quit", "QUIT"}

SubTokens ==
    {"all", "push", "PUSH", "issues", "pullrequest", "issuecomment",
     "watch", "fork", "bogus"}

Tokens == Usernames \cup GlobalTokens \cup ExitTokens \cup {"push"}

\* str.lower() on the tokens of the model
Lower(t) ==
    CASE t = "HELP" -> "help"
      [] t = "Exit" -> "exit"
      [] t = "QUIT" -> "quit"
      [] t = "PUSH" -> "push"
      [] t = "Octocat" -> "octocat"
      [] OTHER -> t

lower(s) == [i \in DOMAIN s |-> Lower(s[i])]

\* the token sequences typed
TypedParts ==
    {<< >>}
    \cup {<<t>> : t \in Tokens}
    \cup {<<"octocat", c>> : c \in SubTokens}
    \cup {<<"Octocat", "push">>, <<"help", "push">>, <<"exit", "push">>,
          <<"octocat", "exit">>, <<"octocat", "push", "bogus">>}

RECURSIVE Spaced(_)
Spaced(p) ==
    IF Len(p) <= 1 THEN p ELSE <<Head(p), Space>> \o Spaced(Tail(p))

\* what input() returns: the tokens separated by whitespace, with or without
\* whitespace before and after
RawLines ==
    {Spaced(p) : p \in TypedParts}
    \cup {lead \o Spaced(p) \o trail :
            p \in {<< >>, <<"exit">>, <<"help">>, <<"octocat">>, <<"octocat", "push">>},
            lead \in {<< >>, <<Space>>}, trail \in {<< >>, <<Space, Space>>}}

RECURSIVE lstrip(_)
lstrip(s) == IF s # << >> /\ Head(s) = Space THEN lstrip(Tail(s)) ELSE s

\* str.strip()
strip(s) == Reverse(lstrip(Reverse(lstrip(s))))

\* str.split(): the maximal runs of non-whitespace
split(s) == SelectSeq(s, LAMBDA x : x # Space)

\* user_input.lower() in ("exit", "quit")
is_exit(ui) == lower(ui) \in {<<"exit">>, <<"quit">>}

is_global_as_typed(tok) == tok \in global_commands

\* cmd = parts[0].lower(); cmd in self.global_commands
is_global(tok) == Lower(tok) \in global_commands

\* activities = self.fetch_activity(username)
assign_activities_cached(old, new) == IF Truthy(old) THEN old ELSE new

assign_activities(old, new) == new

Fetch(username, r) == [username |-> username, ret |-> r]

Invoke(handler, username, acts) ==
    [handler |-> handler, username |-> username, activities |-> acts]

Farewell == Msg("exiting", "")

Goodbye == Msg("goodbye", "")

unknown_command(cmd) == Msg("unknown_command", cmd)

(***************************************************************************)
(* run(): the interactive loop                                             *)
(***************************************************************************)
UnitIdle ==
    [fn |-> "none", username |-> "", etype |-> "", activities |-> << >>,
     http |-> TransportFailure]

\* run() has printed the start banner and is about to read its first line
Init ==
    /\ run_state = "running"
    /\ read = "none"
    /\ user_input = << >>
    /\ activities = Unbound
    /\ fetched = << >>
    /\ invoked = << >>
    /\ out = show_start
    /\ call = UnitIdle
    /\ ret = [kind |-> "none", events |-> << >>, arg |-> << >>]

\* input() raises KeyboardInterrupt or EOFError
ReadInterrupt ==
    /\ run_state = "running"
    /\ read' = "interrupt"
    /\ out' = << Farewell >>
    /\ run_state' = "terminated"
    /\ fetched' = << >>
    /\ invoked' = << >>
    /\ UNCHANGED <<user_input, activities, call, ret>>

\* if not user_input: continue
EmptyLine ==
    /\ run_state = "running"
    /\ \E raw \in RawLines :
        /\ strip(raw) = << >>
        /\ user_input' = strip(raw)
    /\ read' = "line"
    /\ out' = << >>
    /\ fetched' = << >>
    /\ invoked' = << >>
    /\ UNCHANGED <<run_state, activities, call, ret>>

\* if user_input.lower() in ("exit", "quit"): print goodbye; break
ExitLine ==
    /\ run_state = "running"
    /\ \E raw \in RawLines :
        /\ strip(raw) # << >>
        /\ is_exit(strip(raw))
        /\ user_input' = strip(raw)
    /\ read' = "line"
    /\ out' = << Goodbye >>
    /\ run_state' = "terminated"
    /\ fetched' = << >>
    /\ invoked' = << >>
    /\ UNCHANGED <<activities, call, ret>>

\* len(parts) == 1 and cmd in self.global_commands
GlobalLine ==
    /\ run_state = "running"
    /\ \E raw \in RawLines :
        LET ui == strip(raw)
            parts == split(ui)
        IN  /\ ui # << >>
            /\ ~is_exit(ui)
            /\ Len(parts) = 1
            /\ is_global(parts[1])
            /\ user_input' = ui
            /\ invoked' = << Invoke(Lower(parts[1]), "", << >>) >>
            /\ out' = run_global_command(Lower(parts[1]))
    /\ read' = "line"
    /\ fetched' = << >>
    /\ UNCHANGED <<run_state, activities, call, ret>>

\* len(parts) == 1, not a global command: the token is a username
UsernameLine ==
    /\ run_state = "running"
    /\ \E raw \in RawLines, http \in LoopOutcomes :
        LET ui == strip(raw)
            parts == split(ui)
            username == parts[1]
            f == fetch_activity(username, http)
            acts == assign_activities(activities, f.ret)
        IN  /\ ui # << >>
            /\ ~is_exit(ui)
            /\ Len(parts) = 1
            /\ ~is_global(parts[1])
            /\ user_input' = ui
            /\ fetched' = << Fetch(username, f.ret) >>
            /\ IF f.ret.kind = "raised"
               THEN /\ run_state' = "raised"
                    /\ invoked' = << >>
                    /\ out' = f.out
                    /\ UNCHANGED activities
               ELSE /\ activities' = acts
                    /\ UNCHANGED run_state
                    /\ IF Truthy(acts)
                       THEN /\ invoked' = << Invoke("all", username, acts.events) >>
                            /\ out' = f.out \o show_all(username, acts.events)
                       ELSE /\ invoked' = << >>
                            /\ out' = f.out
    /\ read' = "line"
    /\ UNCHANGED <<call, ret>>

\* len(parts) > 1: username and command
UserCommandLine ==
    /\ run_state = "running"
    /\ \E raw \in RawLines, http \in LoopOutcomes :
        LET ui == strip(raw)
            parts == split(ui)
            username == parts[1]
            cmd == Lower(parts[2])
            f == fetch_activity(username, http)
            acts == assign_activities(activities, f.ret)
        IN  /\ ui # << >>
            /\ ~is_exit(ui)
            /\ Len(parts) > 1
            /\ user_input' = ui
            /\ fetched' = << Fetch(username, f.ret) >>
            /\ IF f.ret.kind = "raised"
               THEN /\ run_state' = "raised"
                    /\ invoked' = << >>
                    /\ out' = f.out
                    /\ UNCHANGED activities
               ELSE /\ activities' = acts
                    /\ UNCHANGED run_state
                    /\ IF ~Truthy(acts)
                       THEN /\ invoked' = << >>
                            /\ out' = f.out
                       ELSE IF cmd \in user_commands
                       THEN /\ invoked' = << Invoke(cmd, username, acts.events) >>
                            /\ out' = f.out \o run_user_command(cmd, username, acts.events)
                       ELSE /\ invoked' = << >>
                            /\ out' = f.out \o << unknown_command(cmd) >>
    /\ read' = "line"
    /\ UNCHANGED <<call, ret>>

Next ==
    \/ ReadInterrupt
    \/ EmptyLine
    \/ ExitLine
    \/ GlobalLine
    \/ UsernameLine
    \/ UserCommandLine

Spec == Init /\ [][Next]_vars

(***************************************************************************)
(* The methods called directly, as the unit tests call them                *)
(***************************************************************************)
Pending == [kind |-> "pending", events |-> << >>, arg |-> << >>]

Returned(kind, events, arg) == [kind |-> kind, events |-> events, arg |-> arg]

Call(fn, username, etype, acts, http) ==
    [fn |-> fn, username |-> username, etype |-> etype, activities |-> acts,
     http |-> http]

\* a method is about to be called on its arguments
InitUnit ==
    /\ run_state = "running"
    /\ read = "none"
    /\ user_input = << >>
    /\ activities = Unbound
    /\ fetched = << >>
    /\ invoked = << >>
    /\ out = << >>
    /\ ret = Pending
    /\ \/ \E u \in Usernames, h \in HttpOutcomes :
            call = Call("fetch_activity", u, "", << >>, h)
       \/ \E t \in EventTypes, l \in EventLists :
            call = Call("filter_events", "", t, l, TransportFailure)
       \/ \E c \in FilteredCommands, u \in Usernames, l \in EventLists :
            call = Call(c, u, CommandType[c], l, TransportFailure)
       \/ \E u \in Usernames, l \in EventLists :
            call = Call("all", u, "", l, TransportFailure)

CallFetchActivity ==
    /\ ret = Pending
    /\ call.fn = "fetch_activity"
    /\ LET f == fetch_activity(call.username, call.http)
       IN  /\ ret' = Returned(f.ret.kind, f.ret.events, << >>)
           /\ out' = f.out
    /\ UNCHANGED <<run_state, read, user_input, activities, fetched, invoked, call>>

\* the comprehension builds a new list: the argument is as it was
CallFilterEvents ==
    /\ ret = Pending
    /\ call.fn = "filter_events"
    /\ ret' = Returned("list", filter_events(call.activities, call.etype),
                       call.activities)
    /\ out' = << >>
    /\ UNCHANGED <<run_state, read, user_input, activities, fetched, invoked, call>>

\* show_push, show_issues, show_pullrequest, show_issuecomment, show_watch, show_fork
CallShowFiltered ==
    /\ ret = Pending
    /\ call.fn \in FilteredCommands
    /\ out' = run_user_command(call.fn, call.username, call.activities)
    /\ ret' = Returned("None", << >>, call.activities)
    /\ UNCHANGED <<run_state, read, user_input, activities, fetched, invoked, call>>

CallShowAll ==
    /\ ret = Pending
    /\ call.fn = "all"
    /\ out' = run_user_command(call.fn, call.username, call.activities)
    /\ ret' = Returned("None", << >>, call.activities)
    /\ UNCHANGED <<run_state, read, user_input, activities, fetched, invoked, call>>

NextUnit ==
    \/ CallFetchActivity
    \/ CallFilterEvents
    \/ CallShowFiltered
    \/ CallShowAll

SpecUnit == InitUnit /\ [][NextUnit]_vars

(***************************************************************************)
(* Properties                                                              *)
(***************************************************************************)
\* the indices of E whose event satisfies P, and the place of index i among them
Indices(E, P(_)) == {i \in 1..Len(E) : P(E[i])}

Rank(I, i) == Cardinality({j \in I : j <= i})

parts_read == split(user_input)

FetchReturned == call.fn = "fetch_activity" /\ ret # Pending

\* C1: fetch_activity never raises: whatever the outcome of the request, it
\* returns a list of events or None.
C1_FetchNeverRaises ==
    FetchReturned => ret.kind \in {"list", "None"}

\* C2: every failure of the request prints exactly one diagnostic line, chosen
\* by its kind (404: not found; 403 with remaining "0": rate limit; any other
\* error status: HTTP error; transport failure: network error) and returns
\* None; a success prints nothing and returns the decoded list as it is.
C2_FetchDiagnostics ==
    FetchReturned =>
        LET h == call.http
        IN  IF h.transport
            THEN out = << Diag("network_error", "") >> /\ ret.kind = "None"
            ELSE IF h.status = 404
            THEN out = << Diag("not_found", call.username) >> /\ ret.kind = "None"
            ELSE IF h.status = 403 /\ h.remaining = "0"
            THEN out = << Diag("rate_limit", "") >> /\ ret.kind = "None"
            ELSE IF h.status # 200
            THEN out = << Diag("http_error", "") >> /\ ret.kind = "None"
            ELSE /\ out = << >>
                 /\ h.body.json => (ret.kind = "list" /\ ret.events = h.body.events)

C2_Witness ==
    /\ FetchReturned
    /\ call.http.status = 403
    /\ call.http.remaining = "1"
    /\ out = << Diag("http_error", "") >>
    /\ ret.kind = "None"

\* C3: the loop stops only on exit/quit or on an interrupt or end of input
\* while reading; after any other line it is still running.
C3_OnlyExitPathsEndTheLoop ==
    run_state # "running" =>
        \/ read = "interrupt"
        \/ read = "line" /\ is_exit(user_input)

\* C4: for a line of two or more tokens whose fetch returned a list (the empty
\* list included), a known command is invoked on that list and an unknown one
\* prints the unknown-command message naming it.
C4_ListPresentDispatches ==
    (/\ read = "line"
     /\ Len(parts_read) > 1
     /\ Len(fetched) = 1
     /\ fetched[1].ret.kind = "list") =>
        LET cmd == Lower(parts_read[2])
        IN  IF cmd \in user_commands
            THEN invoked = << Invoke(cmd, parts_read[1], fetched[1].ret.events) >>
            ELSE /\ invoked = << >>
                 /\ out = << unknown_command(cmd) >>

\* C5: filter_events(E, T) is the events of E of type T, each as often as in E
\* and in the order of E; it is no longer than E, and E is left as it was.
C5_FilterIsOrderedSubsequence ==
    (call.fn = "filter_events" /\ ret # Pending) =>
        LET E == call.activities
            R == ret.events
            M == Indices(E, LAMBDA e : e.type = call.etype)
        IN  /\ Len(R) = Cardinality(M)
            /\ \A i \in M : R[Rank(M, i)] = E[i]
            /\ Len(R) <= Len(E)
            /\ ret.arg = E

C5_Witness ==
    /\ call.fn = "filter_events"
    /\ ret # Pending
    /\ Len(call.activities) = 3
    /\ call.activities[1].type = call.etype
    /\ call.activities[2].type # call.etype
    /\ call.activities[3].type = call.etype
    /\ call.activities[1] # call.activities[3]
    /\ ret.events = << call.activities[1], call.activities[3] >>

\* C6: a filtered command prints, when no event has its type, exactly the
\* no-match line with the username; otherwise exactly one formatted line per
\* matching event, in list order, and no no-match line.  It always prints at
\* least one line.
C6_FilteredOutput ==
    (call.fn \in FilteredCommands /\ ret # Pending) =>
        LET E == call.activities
            T == CommandType[call.fn]
            M == Indices(E, LAMBDA e : e.type = T)
        IN  /\ Len(out) >= 1
            /\ IF M = {}
               THEN /\ Len(out) = 1
                    /\ out[1].view = "no_msg"
                    /\ out[1].fmt = T
                    /\ out[1].who = call.username
               ELSE /\ Len(out) = Cardinality(M)
                    /\ \A i \in M :
                        LET l == out[Rank(M, i)]
                        IN  l.view = "filtered" /\ l.fmt = T /\ l.ev = E[i]

C6_Witness ==
    /\ call.fn = "issues"
    /\ ret # Pending
    /\ call.username = "Octocat"
    /\ Len(call.activities) = 2
    /\ out = << no_msg("IssuesEvent", "Octocat") >>

\* C7: a one-token line naming a global command in any letter case runs it and
\* fetches nothing; any other one-token line (exit and quit apart) fetches once
\* for the token as typed and runs show_all exactly when events came back.
C7_SingleToken ==
    (read = "line" /\ Len(parts_read) = 1 /\ ~is_exit(user_input)) =>
        LET tok == parts_read[1]
        IN  IF Lower(tok) \in {"help", "start"}
            THEN /\ fetched = << >>
                 /\ invoked = << Invoke(Lower(tok), "", << >>) >>
                 /\ out = (IF Lower(tok) = "help" THEN show_help ELSE show_start)
            ELSE /\ Len(fetched) = 1
                 /\ fetched[1].username = tok
                 /\ IF fetched[1].ret.kind = "list" /\ fetched[1].ret.events # << >>
                    THEN invoked = << Invoke("all", tok, fetched[1].ret.events) >>
                    ELSE invoked = << >>

C7_Witness ==
    /\ read = "line"
    /\ user_input = << "Octocat" >>
    /\ Len(fetched) = 1
    /\ fetched[1].username = "Octocat"
    /\ Len(invoked) = 1
    /\ invoked[1].handler = "all"
    /\ Len(out) = 1

\* C8: exit or quit in any letter case prints the goodbye line and an
\* interrupt or end of input prints the farewell line, run() then returns;
\* and whenever run() has stopped reading it has returned, not raised.
C8_RunEndsTerminated ==
    /\ read = "interrupt" => (out = << Farewell >> /\ run_state = "terminated")
    /\ (read = "line" /\ is_exit(user_input)) =>
            (out = << Goodbye >> /\ run_state = "terminated")
    /\ run_state # "running" => run_state = "terminated"

\* C9: show_all prints one line per event of a known type, in list order and
\* in that type's format, and skips the events of any other type without
\* stopping.
C9_ShowAllOutput ==
    (call.fn = "all" /\ ret # Pending) =>
        LET E == call.activities
            K == Indices(E, LAMBDA e : e.type \in KnownTypes)
        IN  /\ Len(out) = Cardinality(K)
            /\ \A i \in K :
                LET l == out[Rank(K, i)]
                IN  l.view = "all" /\ l.fmt = E[i].type /\ l.ev = E[i]

C9_Witness ==
    /\ call.fn = "all"
    /\ ret # Pending
    /\ Len(call.activities) = 3
    /\ call.activities[1].type = "WatchEvent"
    /\ call.activities[2].type = "CreateEvent"
    /\ call.activities[3].type = "PushEvent"
    /\ Len(out) = 2
    /\ out[2].ev = call.activities[3]

\* C10: a line fetches at most once (never for an empty line, exit, quit or a
\* global command; once for any other line), and what a line displays comes
\* from the list its own fetch returned.
C10_OneFetchPerLineNoReuse ==
    /\ Len(fetched) <= 1
    /\ read # "line" => fetched = << >>
    /\ read = "line" =>
        (fetched = << >> <=>
            \/ user_input = << >>
            \/ is_exit(user_input)
            \/ Len(parts_read) = 1 /\ Lower(parts_read[1]) \in {"help", "start"})
    /\ \A i \in DOMAIN invoked :
        invoked[i].handler \in user_commands =>
            /\ Len(fetched) = 1
            /\ fetched[1].ret = List(invoked[i].activities)
            /\ fetched[1].username = invoked[i].username
    /\ \A i \in DOMAIN out :
        out[i].ev # NoEvent =>
            /\ Len(fetched) = 1
            /\ \E k \in DOMAIN fetched[1].ret.events :
                fetched[1].ret.events[k] = out[i].ev

C10_Witness ==
    /\ read = "line"
    /\ parts_read = << "octocat", "push" >>
    /\ Len(fetched) = 1
    /\ Len(fetched[1].ret.events) = 2
    /\ activities = fetched[1].ret
    /\ invoked = << Invoke("push", "octocat", fetched[1].ret.events) >>
    /\ Len(out) = 2

====
